---- MODULE Spec2Model ----
(***************************************************************************)
(* StickyNotes (src/js/index.js): the note widgets of the page, the        *)
(* stacking counter zIndexValue, the drag state (cursor, note) and the     *)
(* asynchronous event handlers that persist notes through DatabaseManager. *)
(*                                                                         *)
(* Every handler that awaits a store call is two steps: the synchronous    *)
(* part up to the await (the call is issued and joins `pending`) and the   *)
(* continuation after it (the call's effect on the store and the rest of   *)
(* the handler).  Pending calls complete in any order and may fail.        *)
(* DatabaseManager (indexedDB.js) is modelled from its contract.           *)
(* style.cursor ("grab"/"grabbing") is presentation only and is left out.  *)
(***************************************************************************)
EXTENDS Bags, FiniteSets, Integers, Sequences, TLC

\* ------------------------------------------------------------- bounds
MaxIntents == 3     \* user events (click, mousedown, mousemove, mouseup, input) handled in one session

\* ------------------------------------------------------------- values
NaN == -999         \* the number NaN (parseInt of "" or of undefined)
Null == -998        \* the value null

\* An <input type="color"> with no value holds black.
DefaultColor == "#000000"
Colors == {DefaultColor, "#ff0000", "#00ff00"}
Texts == {"a", "b"}
Clients == {[x |-> 10, y |-> 10], [x |-> 15, y |-> 15]}

Max(a, b) == IF a >= b THEN a ELSE b

\* A style property or an element id is "" (<<>>) or holds one number
\* (<<n>> for "npx", "n" or "note-n").
Px(n) == IF n = NaN THEN <<>> ELSE <<n>>
parseInt(s) == IF s = <<>> THEN NaN ELSE s[1]
NoteIdOf(el) == parseInt(el.id)

\* JavaScript truthiness of a number field that may be absent from the record.
Truthy(rec, f) == f \in DOMAIN rec /\ rec[f] # 0 /\ rec[f] # NaN
ZOrZero(rec) == IF Truthy(rec, "zIndex") THEN rec.zIndex ELSE 0

\* ------------------------------------------------------------- the store
EmptyStore == [i \in {} |-> 0]

NoteRecord(i, c, t, px, py, z) ==
    [id |-> i, color |-> c, text |-> t, position |-> [x |-> px, y |-> py], zIndex |-> z]

\* What earlier sessions may have left behind: nothing; two notes created in
\* order; one note of an older layout with no zIndex, ids 1 and 2 deleted.
InitStores ==
    { [store |-> EmptyStore, nextId |-> 1],
      [store |-> (1 :> NoteRecord(1, "#ff0000", "", 0, 0, 1))
                 @@ (2 :> NoteRecord(2, "#00ff00", "a", 5, 5, 2)),
       nextId |-> 3],
      [store |-> (3 :> [id |-> 3, color |-> "#ff0000", text |-> "",
                        position |-> [x |-> 5, y |-> 0]]),
       nextId |-> 4] }

readAllData(st) == {st[i] : i \in DOMAIN st}

createData(st, key, data) == st @@ (key :> (data @@ [id |-> key]))

updateData(st, key, fields) ==
    [st EXCEPT ![key] = [f \in DOMAIN fields \cup DOMAIN @ |->
                           IF f \in DOMAIN fields THEN fields[f] ELSE @[f]]]

deleteData(st, key) == [i \in DOMAIN st \ {key} |-> st[i]]

\* The largest stackOrder of a set of records, a missing one counting as 0.
MaxStackOrder(recs) ==
    IF recs = {} THEN 0
    ELSE CHOOSE m \in {ZOrZero(r) : r \in recs} : \A r \in recs : ZOrZero(r) <= m

\* ------------------------------------------------------------- state
VARIABLES
    phase,        \* initDatabase: "opening", "loading", "ready", "loadfailed", "failed"
    store,        \* the persisted records, keyed by id
    nextId,       \* the store's key generator
    zIndexValue,  \* the stacking counter
    noteColor,    \* noteColorInput.value, the colour picked for the next note
    elems,        \* the note elements built so far, in order of construction
    cursor,       \* pointer position at mousedown
    note,         \* the dragged element and its position at mousedown
    pending,      \* bag of handlers suspended on a store call
    client,       \* history: clientX/Y of the last mouse event of the drag
    frontZ,       \* history: the z-index the last mousedown assigned
    dragWrites,   \* history: updateData calls issued since the last mousedown (2 = more than one)
    createdZ,     \* history: per element, the zIndex its createData persisted (0 = none)
    deleted,      \* history: the ids whose deleteData has succeeded
    priorMax,     \* history: the largest stackOrder earlier sessions left in the store
    intents       \* number of user events handled so far

vars == <<phase, store, nextId, zIndexValue, noteColor, elems, cursor, note, pending,
          client, frontZ, dragWrites, createdZ, deleted, priorMax, intents>>

StoreUp == phase \in {"loading", "ready", "loadfailed"}

Attached == {w \in DOMAIN elems : elems[w].st = "attached"}

NewElement(c) ==
    [st |-> "detached", id |-> <<>>, zIndex |-> <<>>, left |-> <<>>, top |-> <<>>,
     background |-> c, value |-> ""]

\* getBoundingClientRect: the element sits where its style puts it, at the
\* canvas origin when left/top are unset.
Rect(el) == [left |-> IF el.left = <<>> THEN 0 ELSE el.left[1],
             top  |-> IF el.top = <<>> THEN 0 ELSE el.top[1]]

Issue(op) == pending (+) SetToBag({op})
Settle(op) == pending (-) SetToBag({op})

\* One more user event is handled.
Intent == intents < MaxIntents /\ intents' = intents + 1

Init ==
    /\ phase = "opening"
    /\ \E db \in InitStores : store = db.store /\ nextId = db.nextId
    /\ priorMax = MaxStackOrder(readAllData(store))
    /\ zIndexValue = 1
    /\ noteColor = DefaultColor
    /\ elems = <<>>
    /\ cursor = [x |-> Null, y |-> Null]
    /\ note = [dom |-> Null, x |-> Null, y |-> Null]
    /\ pending = EmptyBag
    /\ client = [x |-> Null, y |-> Null]
    /\ frontZ = 0
    /\ dragWrites = 0
    /\ createdZ = <<>>
    /\ deleted = {}
    /\ intents = 0

\* ------------------------------------------------------------- startup
\* initDatabase, line 21: open() settles.  On failure initDatabase rejects and
\* loadExistingNotes is never called; the listeners stay registered.
OpenDone(ok) ==
    /\ phase = "opening"
    /\ phase' = IF ok THEN "loading" ELSE "failed"
    /\ UNCHANGED <<store, nextId, zIndexValue, elems, cursor, note, pending,
                   client, frontZ, dragWrites, createdZ, intents, noteColor, deleted, priorMax>>

\* The orders notes.sort can leave the records in: ascending by (zIndex || 0),
\* ties in the store's iteration order, which is unspecified.
SortedNotes(recs) ==
    {s \in [1..Cardinality(recs) -> recs] :
        /\ \A i, j \in DOMAIN s : i # j => s[i] # s[j]
        /\ \A i, j \in DOMAIN s : i < j => ZOrZero(s[i]) <= ZOrZero(s[j])}

\* The element createNoteFromDatabase builds for a record.
ElementFromDatabase(noteData) ==
    [st |-> "attached",
     id |-> <<noteData.id>>,
     left |-> IF "position" \in DOMAIN noteData THEN Px(noteData.position.x) ELSE <<>>,
     top |-> IF "position" \in DOMAIN noteData THEN Px(noteData.position.y) ELSE <<>>,
     zIndex |-> IF Truthy(noteData, "zIndex") THEN <<noteData.zIndex>> ELSE <<>>,
     background |-> IF "color" \in DOMAIN noteData THEN noteData.color ELSE "",
     value |-> IF "text" \in DOMAIN noteData THEN noteData.text ELSE ""]

\* Seeding that forgets the step past the restored z-index.
SeedFromNoStep(z, noteData) ==
    IF Truthy(noteData, "zIndex") THEN Max(z, noteData.zIndex) ELSE z

\* Seeding that overwrites the counter instead of taking the larger value.
SeedFromLast(z, noteData) ==
    IF Truthy(noteData, "zIndex") THEN noteData.zIndex + 1 ELSE z

\* The counter after createNoteFromDatabase has seen a record.
SeedFrom(z, noteData) ==
    IF Truthy(noteData, "zIndex") THEN Max(z, noteData.zIndex + 1) ELSE z

\* createNoteFromDatabase on the pair (elements, counter).
createNoteFromDatabase(noteData, dom) ==
    [elems |-> Append(dom.elems, ElementFromDatabase(noteData)),
     z |-> SeedFrom(dom.z, noteData)]

RECURSIVE ForEachNote(_, _)
ForEachNote(notes, dom) ==
    IF notes = <<>> THEN dom
    ELSE ForEachNote(Tail(notes), createNoteFromDatabase(Head(notes), dom))

\* loadExistingNotes after readAllData settles: sort, then build every note;
\* a read failure is logged and nothing is built.
LoadDone(ok) ==
    /\ phase = "loading"
    /\ IF ok
       THEN \E notes \in SortedNotes(readAllData(store)) :
              LET dom == ForEachNote(notes, [elems |-> elems, z |-> zIndexValue]) IN
              /\ phase' = "ready"
              /\ elems' = dom.elems
              /\ zIndexValue' = dom.z
              /\ createdZ' = createdZ \o [i \in 1..Len(notes) |-> 0]
       ELSE /\ phase' = "loadfailed"
            /\ UNCHANGED <<elems, zIndexValue, createdZ>>
    /\ UNCHANGED <<store, nextId, cursor, note, pending, client, frontZ, dragWrites, intents, noteColor, deleted, priorMax>>

\* ------------------------------------------------------------- add a note
\* The user sets the colour input (line 4); no handler runs.
PickColor(c) ==
    /\ c # noteColor
    /\ Intent
    /\ noteColor' = c
    /\ UNCHANGED <<phase, store, nextId, zIndexValue, elems, cursor, note, pending,
                   client, frontZ, dragWrites, createdZ, deleted, priorMax>>

\* A click handler that stores the default colour, not the picked one.
AddClickDefaultColor ==
    /\ Intent
    /\ elems' = Append(elems, NewElement(noteColor))
    /\ createdZ' = Append(createdZ, 0)
    /\ pending' = Issue([kind |-> "create", dom |-> Len(elems) + 1, avail |-> StoreUp,
                         noteData |-> [color |-> DefaultColor, text |-> "",
                                       position |-> [x |-> 0, y |-> 0],
                                       zIndex |-> zIndexValue]])
    /\ UNCHANGED <<phase, store, nextId, zIndexValue, cursor, note,
                   client, frontZ, dragWrites, noteColor, deleted, priorMax>>

\* addInput click, lines 106-136: build the element, capture noteData with the
\* current counter, call createData and suspend.
AddClick ==
    /\ Intent
    /\ elems' = Append(elems, NewElement(noteColor))
    /\ createdZ' = Append(createdZ, 0)
    /\ pending' = Issue([kind |-> "create", dom |-> Len(elems) + 1, avail |-> StoreUp,
                         noteData |-> [color |-> noteColor, text |-> "",
                                       position |-> [x |-> 0, y |-> 0],
                                       zIndex |-> zIndexValue]])
    /\ UNCHANGED <<phase, store, nextId, zIndexValue, cursor, note,
                   client, frontZ, dragWrites, noteColor, deleted, priorMax>>

\* A continuation that numbers the element from the stacking counter instead
\* of the id createData returned.
CreateDoneIdFromCounter(op, ok) ==
    /\ op \in BagToSet(pending)
    /\ op.kind = "create"
    /\ ok => op.avail
    /\ pending' = Settle(op)
    /\ IF ok
       THEN /\ store' = createData(store, nextId, op.noteData)
            /\ nextId' = nextId + 1
            /\ elems' = [elems EXCEPT ![op.dom] =
                           [@ EXCEPT !.id = <<zIndexValue>>, !.zIndex = <<zIndexValue>>,
                                     !.st = "attached"]]
            /\ zIndexValue' = zIndexValue + 1
            /\ createdZ' = [createdZ EXCEPT ![op.dom] = op.noteData.zIndex]
       ELSE /\ elems' = [elems EXCEPT ![op.dom].st = "attached"]
            /\ UNCHANGED <<store, nextId, zIndexValue, createdZ>>
    /\ UNCHANGED <<phase, cursor, note, client, frontZ, dragWrites, intents, noteColor, deleted, priorMax>>

\* A continuation that moves the counter on after the try/catch, whatever
\* createData answered.
CreateDoneAlwaysSteps(op, ok) ==
    /\ op \in BagToSet(pending)
    /\ op.kind = "create"
    /\ ok => op.avail
    /\ pending' = Settle(op)
    /\ zIndexValue' = zIndexValue + 1
    /\ IF ok
       THEN /\ store' = createData(store, nextId, op.noteData)
            /\ nextId' = nextId + 1
            /\ elems' = [elems EXCEPT ![op.dom] =
                           [@ EXCEPT !.id = <<nextId>>, !.zIndex = <<zIndexValue>>,
                                     !.st = "attached"]]
            /\ createdZ' = [createdZ EXCEPT ![op.dom] = op.noteData.zIndex]
       ELSE /\ elems' = [elems EXCEPT ![op.dom].st = "attached"]
            /\ UNCHANGED <<store, nextId, createdZ>>
    /\ UNCHANGED <<phase, cursor, note, client, frontZ, dragWrites, intents, noteColor, deleted, priorMax>>

\* lines 136-147: createData settled.  On success the element gets the id and
\* the counter's value now, and the counter moves on; either way the element
\* is appended to the page.
CreateDone(op, ok) ==
    /\ op \in BagToSet(pending)
    /\ op.kind = "create"
    /\ ok => op.avail
    /\ pending' = Settle(op)
    /\ IF ok
       THEN /\ store' = createData(store, nextId, op.noteData)
            /\ nextId' = nextId + 1
            /\ elems' = [elems EXCEPT ![op.dom] =
                           [@ EXCEPT !.id = <<nextId>>, !.zIndex = <<zIndexValue>>,
                                     !.st = "attached"]]
            /\ zIndexValue' = zIndexValue + 1
            /\ createdZ' = [createdZ EXCEPT ![op.dom] = op.noteData.zIndex]
       ELSE /\ elems' = [elems EXCEPT ![op.dom].st = "attached"]
            /\ UNCHANGED <<store, nextId, zIndexValue, createdZ>>
    /\ UNCHANGED <<phase, cursor, note, client, frontZ, dragWrites, intents, noteColor, deleted, priorMax>>

\* ------------------------------------------------------------- delete a note
\* document click on a delete button, lines 154-161.
DeleteClick(w) ==
    /\ w \in Attached
    /\ Intent
    /\ pending' = Issue([kind |-> "delete", dom |-> w, avail |-> StoreUp,
                         noteId |-> NoteIdOf(elems[w])])
    /\ UNCHANGED <<phase, store, nextId, zIndexValue, elems, cursor, note,
                   client, frontZ, dragWrites, createdZ, noteColor, deleted, priorMax>>

\* lines 161-166: deleteData settled; the element is removed only on success.
DeleteDone(op, ok) ==
    /\ op \in BagToSet(pending)
    /\ op.kind = "delete"
    /\ ok => (op.avail /\ op.noteId \in DOMAIN store)
    /\ pending' = Settle(op)
    /\ IF ok
       THEN /\ store' = deleteData(store, op.noteId)
            /\ elems' = [elems EXCEPT ![op.dom].st = "removed"]
            /\ deleted' = deleted \cup {op.noteId}
       ELSE UNCHANGED <<store, elems, deleted>>
    /\ UNCHANGED <<phase, nextId, zIndexValue, cursor, note,
                   client, frontZ, dragWrites, createdZ, intents, noteColor, priorMax>>

\* ------------------------------------------------------------- drag
\* A mousedown handler that forgets zIndexValue++.
MouseDownNoStep(w, p) ==
    /\ w \in Attached
    /\ Intent
    /\ cursor' = p
    /\ note' = [dom |-> w, x |-> Rect(elems[w]).left, y |-> Rect(elems[w]).top]
    /\ elems' = [elems EXCEPT ![w].zIndex = <<zIndexValue>>]
    /\ client' = p
    /\ frontZ' = zIndexValue
    /\ dragWrites' = 0
    /\ UNCHANGED <<phase, store, nextId, zIndexValue, pending, createdZ, noteColor, deleted, priorMax>>

\* mousedown on a note header, lines 178-201.
MouseDown(w, p) ==
    /\ w \in Attached
    /\ Intent
    /\ cursor' = p
    /\ note' = [dom |-> w, x |-> Rect(elems[w]).left, y |-> Rect(elems[w]).top]
    /\ elems' = [elems EXCEPT ![w].zIndex = <<zIndexValue>>]
    /\ zIndexValue' = zIndexValue + 1
    /\ client' = p
    /\ frontZ' = zIndexValue
    /\ dragWrites' = 0
    /\ UNCHANGED <<phase, store, nextId, pending, createdZ, noteColor, deleted, priorMax>>

\* mousemove, lines 207-226: nothing while no note is dragged.
MouseMove(p) ==
    /\ IF note.dom = Null
       THEN UNCHANGED <<elems, client, intents>>
       ELSE /\ p # client
            /\ Intent
            /\ client' = p
            /\ elems' = [elems EXCEPT ![note.dom] =
                           [@ EXCEPT !.left = Px(note.x + (p.x - cursor.x)),
                                     !.top = Px(note.y + (p.y - cursor.y))]]
    /\ UNCHANGED <<phase, store, nextId, zIndexValue, cursor, note, pending,
                   frontZ, dragWrites, createdZ, noteColor, deleted, priorMax>>

\* mouseup, lines 232-248: with a dragged note, read the id, position and
\* z-index back from the element, call updateData and suspend; note.dom is
\* reset only after the call settles.  Without one, line 255 runs at once.
MouseUp ==
    /\ IF note.dom # Null
       THEN /\ Intent
            /\ pending' = Issue([kind |-> "dragEnd", avail |-> StoreUp,
                                 noteId |-> NoteIdOf(elems[note.dom]),
                                 fields |-> [position |->
                                               [x |-> parseInt(elems[note.dom].left),
                                                y |-> parseInt(elems[note.dom].top)],
                                             zIndex |-> parseInt(elems[note.dom].zIndex)]])
            /\ dragWrites' = IF dragWrites = 0 THEN 1 ELSE 2
            /\ UNCHANGED note
       ELSE /\ note' = [note EXCEPT !.dom = Null]
            /\ UNCHANGED <<pending, dragWrites, intents>>
    /\ UNCHANGED <<phase, store, nextId, zIndexValue, elems, cursor,
                   client, frontZ, createdZ, noteColor, deleted, priorMax>>

\* A continuation with the reset inside the try block: a rejected updateData
\* skips it.
DragEndDoneResetInTry(op, ok) ==
    /\ op \in BagToSet(pending)
    /\ op.kind = "dragEnd"
    /\ ok => (op.avail /\ op.noteId \in DOMAIN store)
    /\ pending' = Settle(op)
    /\ store' = IF ok THEN updateData(store, op.noteId, op.fields) ELSE store
    /\ note' = IF ok THEN [note EXCEPT !.dom = Null] ELSE note
    /\ UNCHANGED <<phase, nextId, zIndexValue, elems, cursor,
                   client, frontZ, dragWrites, createdZ, intents, noteColor, deleted, priorMax>>

\* lines 245-255: updateData settled (a failure is logged); the drag state is
\* reset.
DragEndDone(op, ok) ==
    /\ op \in BagToSet(pending)
    /\ op.kind = "dragEnd"
    /\ ok => (op.avail /\ op.noteId \in DOMAIN store)
    /\ pending' = Settle(op)
    /\ store' = IF ok THEN updateData(store, op.noteId, op.fields) ELSE store
    /\ note' = [note EXCEPT !.dom = Null]
    /\ UNCHANGED <<phase, nextId, zIndexValue, elems, cursor,
                   client, frontZ, dragWrites, createdZ, intents, noteColor, deleted, priorMax>>

\* ------------------------------------------------------------- edit text
\* An input handler that sends a whole fresh note instead of the text alone.
InputWholeNote(w, t) ==
    /\ w \in Attached
    /\ Intent
    /\ t # elems[w].value
    /\ elems' = [elems EXCEPT ![w].value = t]
    /\ pending' = Issue([kind |-> "input", avail |-> StoreUp,
                         noteId |-> NoteIdOf(elems[w]),
                         fields |-> [text |-> t, position |-> [x |-> 0, y |-> 0]]])
    /\ UNCHANGED <<phase, store, nextId, zIndexValue, cursor, note,
                   client, frontZ, dragWrites, createdZ, noteColor, deleted, priorMax>>

\* input on a note's textarea, lines 263-271: the browser has put the text in
\* the textarea; the handler calls updateData with it and suspends.
Input(w, t) ==
    /\ w \in Attached
    /\ Intent
    /\ t # elems[w].value
    /\ elems' = [elems EXCEPT ![w].value = t]
    /\ pending' = Issue([kind |-> "input", avail |-> StoreUp,
                         noteId |-> NoteIdOf(elems[w]), fields |-> [text |-> t]])
    /\ UNCHANGED <<phase, store, nextId, zIndexValue, cursor, note,
                   client, frontZ, dragWrites, createdZ, noteColor, deleted, priorMax>>

\* An input handler that writes the record back whole (a put), so that a text
\* update of an id that is gone stores a record again.
InputDoneUpsert(op, ok) ==
    /\ op \in BagToSet(pending)
    /\ op.kind = "input"
    /\ ok => (op.avail /\ op.noteId # NaN)
    /\ pending' = Settle(op)
    /\ store' = IF ~ok THEN store
                ELSE IF op.noteId \in DOMAIN store
                     THEN updateData(store, op.noteId, op.fields)
                     ELSE createData(store, op.noteId, op.fields)
    /\ UNCHANGED <<phase, nextId, zIndexValue, elems, cursor, note,
                   client, frontZ, dragWrites, createdZ, intents, noteColor, deleted, priorMax>>

\* lines 271-274: updateData settled; a failure is logged.
InputDone(op, ok) ==
    /\ op \in BagToSet(pending)
    /\ op.kind = "input"
    /\ ok => (op.avail /\ op.noteId \in DOMAIN store)
    /\ pending' = Settle(op)
    /\ store' = IF ok THEN updateData(store, op.noteId, op.fields) ELSE store
    /\ UNCHANGED <<phase, nextId, zIndexValue, elems, cursor, note,
                   client, frontZ, dragWrites, createdZ, intents, noteColor, deleted, priorMax>>

\* ------------------------------------------------------------- specification
Next ==
    \/ \E ok \in BOOLEAN : OpenDone(ok)
    \/ \E ok \in BOOLEAN : LoadDone(ok)
    \/ \E c \in Colors : PickColor(c)
    \/ AddClick
    \/ \E op \in BagToSet(pending), ok \in BOOLEAN : CreateDone(op, ok)
    \/ \E w \in DOMAIN elems : DeleteClick(w)
    \/ \E op \in BagToSet(pending), ok \in BOOLEAN : DeleteDone(op, ok)
    \/ \E w \in DOMAIN elems, p \in Clients : MouseDown(w, p)
    \/ \E p \in Clients : MouseMove(p)
    \/ MouseUp
    \/ \E op \in BagToSet(pending), ok \in BOOLEAN : DragEndDone(op, ok)
    \/ \E w \in DOMAIN elems, t \in Texts : Input(w, t)
    \/ \E op \in BagToSet(pending), ok \in BOOLEAN : InputDone(op, ok)

Spec == Init /\ [][Next]_vars

\* A store call that was issued settles: the promise updateData returned is
\* resolved or rejected, and the event loop then runs the continuation.
DragEndSettles == \E op \in BagToSet(pending), ok \in BOOLEAN : DragEndDone(op, ok)
LiveSpec == Spec /\ WF_vars(DragEndSettles)

\* Steps of the handlers, as seen on the state.
Issued(kind) ==
    {op \in BagToSet(pending') : op.kind = kind /\ CopiesIn(op, pending') > CopiesIn(op, pending)}
Settled(kind) ==
    {op \in BagToSet(pending) : op.kind = kind /\ CopiesIn(op, pending') < CopiesIn(op, pending)}

\* A step in which no store call fails that could have succeeded: open and
\* readAllData succeed, and a call on an open store for a record that exists
\* takes effect.  Calls still settle in any order.
NoFault ==
    /\ phase' \notin {"failed", "loadfailed"}
    /\ \A op \in Settled("create") : op.avail => nextId' # nextId
    /\ \A op \in Settled("delete") :
          (op.avail /\ op.noteId \in DOMAIN store) => op.noteId \notin DOMAIN store'
    /\ \A op \in Settled("input") \cup Settled("dragEnd") :
          (op.avail /\ op.noteId \in DOMAIN store)
             => store' = updateData(store, op.noteId, op.fields)

\* The sessions in which the store never fails.
ReliableSpec == Init /\ [][Next /\ NoFault]_vars

\* ------------------------------------------------------------- properties

\* C1: of two createNote calls whose records were both persisted, the later
\* call persisted a strictly greater stackOrder than the earlier one (elements
\* are numbered in call order).
C1_LaterCreateStacksHigher ==
    \A i, j \in DOMAIN createdZ :
        (i < j /\ createdZ[i] # 0 /\ createdZ[j] # 0) => createdZ[j] > createdZ[i]

\* C2 as stated: the load leaves the counter equal to max(stackOrder) + 1 over
\* the loaded records.
C2_LoadSeedsExactly ==
    [][(phase = "loading" /\ phase' = "ready")
         => zIndexValue' = MaxStackOrder(readAllData(store)) + 1]_vars

\* C2 amended: the load leaves the counter equal to the larger of its value
\* before the load and max(stackOrder) + 1 over the loaded records; with
\* nothing handled before the load it is max(stackOrder) + 1, 1 for no record.
C2_LoadSeedsAtLeast ==
    [][(phase = "loading" /\ phase' = "ready")
         => /\ zIndexValue' = Max(zIndexValue, MaxStackOrder(readAllData(store)) + 1)
            /\ (zIndexValue = 1 => zIndexValue' = MaxStackOrder(readAllData(store)) + 1)]_vars

\* Two notes with stackOrder 1 and 2 were loaded and the counter is 3.
C2_Witness ==
    /\ phase = "ready"
    /\ intents = 0
    /\ {ZOrZero(r) : r \in readAllData(store)} = {1, 2}
    /\ Len(elems) = 2
    /\ zIndexValue = 3

\* C3: no step decreases the stacking counter.
C3_CounterNeverDecreases == [][zIndexValue' >= zIndexValue]_vars

\* The counter was raised by a drag-start before the load and again by the load.
C3_Witness ==
    /\ phase = "ready"
    /\ frontZ = 1
    /\ zIndexValue = 3
    /\ \E w \in DOMAIN elems : elems[w].zIndex = <<2>>

\* C4: a createNote call handled after a drag-start persists a stackOrder
\* strictly greater than the one that drag-start assigned, and the element it
\* builds is shown with a z-index no smaller than the persisted one.
C4_CreateAboveFront ==
    [][/\ \A op \in Issued("create") :
            frontZ # 0 => op.noteData.zIndex > frontZ
       /\ \A op \in Settled("create") :
            elems'[op.dom].zIndex # <<>> =>
                elems'[op.dom].zIndex[1] >= op.noteData.zIndex]_vars

\* A createNote is in flight that was issued right after a drag-start.
C4_Witness ==
    /\ frontZ # 0
    /\ note.dom # Null
    /\ \E op \in BagToSet(pending) :
          op.kind = "create" /\ op.noteData.zIndex = frontZ + 1

C6_DeleteAlwaysRemoves ==
    [][\A op \in Settled("delete") : elems'[op.dom].st = "removed"]_vars

\* C7: a createData that succeeds on an empty store leaves exactly one record,
\* with the colour picked at the click, text "" and position (0,0).
C7_CreateRoundTrip ==
    [][(readAllData(store) = {} /\ nextId' = nextId + 1)
         => \E op \in Settled("create") :
              \E r \in readAllData(store') :
                 /\ readAllData(store') = {r}
                 /\ r.color = elems[op.dom].background
                 /\ r.text = ""
                 /\ r.position = [x |-> 0, y |-> 0]]_vars

\* One red note was created in an empty store.
C7_Witness ==
    /\ nextId = 2
    /\ \E r \in readAllData(store) :
          /\ readAllData(store) = {r}
          /\ r.color = "#ff0000" /\ r.text = "" /\ r.position = [x |-> 0, y |-> 0]

\* C8: the drag-end update of a persisted note carries position = origin
\* position + total pointer delta and the z-index the drag-start allocated,
\* and on success the record holds both.
C8_DragPersistsOriginPlusDelta ==
    [][/\ \A op \in Issued("dragEnd") :
            op.noteId \in DOMAIN store =>
               /\ op.fields.position = [x |-> note.x + (client.x - cursor.x),
                                        y |-> note.y + (client.y - cursor.y)]
               /\ op.fields.zIndex = frontZ
       /\ \A op \in Settled("dragEnd") :
            store' # store =>
               /\ store'[op.noteId].position = op.fields.position
               /\ store'[op.noteId].zIndex = op.fields.zIndex]_vars

\* C9: mousedown and mousemove issue no store call, and at most one
\* updateData is issued between one mousedown and the next.
C9_OneWritePerDrag ==
    [][/\ dragWrites' <= 1
       /\ (frontZ' # frontZ \/ client' # client) => pending' = pending]_vars

\* C10: once open() has failed, no user event is handled: no store call is
\* issued, no element is built, the counter and the drag state stay put.
C10_FailedOpenStopsTheApp ==
    [][phase = "failed"
         => /\ pending' \sqsubseteq pending
            /\ Len(elems') = Len(elems)
            /\ zIndexValue' = zIndexValue
            /\ cursor' = cursor]_vars

\* C11: the id a successful createNote assigns to its element is the key of
\* the record just stored; no record, no element and no deleted note holds or
\* has held it.
C11_IdsNeverReused ==
    [][\A op \in Settled("create") :
          nextId' # nextId =>
             LET id == NoteIdOf(elems'[op.dom]) IN
             /\ id # NaN
             /\ id \in DOMAIN store'
             /\ id \notin DOMAIN store
             /\ id \notin deleted
             /\ \A w \in DOMAIN elems : NoteIdOf(elems[w]) # id]_vars

\* A note has been deleted and a note created in this session holds another,
\* larger id.
C11_Witness ==
    /\ deleted # {}
    /\ \E w \in DOMAIN elems :
          /\ createdZ[w] # 0
          /\ \A d \in deleted : NoteIdOf(elems[w]) > d

\* C12: whenever a drag-end has issued its updateData, the drag state is
\* eventually idle (note.dom = null), whether the call succeeds, fails or
\* finds no record.
C12_DragEndReturnsToIdle ==
    (\E op \in BagToSet(pending) : op.kind = "dragEnd") ~> (note.dom = Null)

\* The dragged note was deleted, its drag-end has settled and the drag state
\* is idle.
C12_Witness ==
    /\ note.dom = Null
    /\ dragWrites = 1
    /\ pending = EmptyBag
    /\ \E w \in DOMAIN elems :
          elems[w].st = "removed" /\ elems[w].zIndex = <<frontZ>>

\* C13: an element that is put on the page, by the load or by the click
\* handler's continuation, carries an id and a z-index at that moment.
C13_RenderedWithIdAndStackOrder ==
    [][\A w \in DOMAIN elems' :
          (elems'[w].st = "attached" /\ (w \notin DOMAIN elems \/ elems[w].st = "detached"))
             => (elems'[w].id # <<>> /\ elems'[w].zIndex # <<>>)]_vars

\* C14: when createData succeeds the counter goes up by exactly 1 and the
\* store gains one record; when it fails the counter and the store are left
\* as they were.
C14_CounterStepsOnlyOnSuccess ==
    [][\A op \in Settled("create") :
          IF nextId' # nextId
          THEN /\ zIndexValue' = zIndexValue + 1
               /\ DOMAIN store' = DOMAIN store \cup {nextId}
               /\ nextId \notin DOMAIN store
          ELSE /\ zIndexValue' = zIndexValue
               /\ store' = store]_vars

\* One createNote has failed and one has succeeded: a note without id is on
\* the page, one record was stored and the counter stands at 2.
C14_Witness ==
    /\ zIndexValue = 2
    /\ frontZ = 0
    /\ nextId = 2
    /\ Cardinality(DOMAIN store) = 1
    /\ \E w \in Attached : elems[w].id = <<>>
    /\ \E w \in Attached : createdZ[w] = 1

\* C15: when no store call is in flight and none has failed, the text
\* persisted for every live note equals the text its textarea holds, that is
\* the text of the last input event on it.
C15_LastEditPersisted ==
    pending = EmptyBag =>
       \A w \in Attached :
          LET id == NoteIdOf(elems[w]) IN
          (/\ id \in DOMAIN store
           /\ \A v \in DOMAIN elems : v # w => NoteIdOf(elems[v]) # id)
             => store[id].text = elems[w].value

\* The records other than `key` are untouched and `key` keeps every field
\* outside `given`.
OnlyChanges(key, given) ==
    /\ DOMAIN store' = DOMAIN store
    /\ \A i \in DOMAIN store :
          IF i = key
          THEN \A f \in DOMAIN store[i] \ given :
                  f \in DOMAIN store'[i] /\ store'[i][f] = store[i][f]
          ELSE store'[i] = store[i]

\* C16: a settled text update leaves position, zIndex, color and id of its
\* record as they were, a settled drag-end update leaves text, color and id
\* as they were, and neither touches another record.
C16_UpdateKeepsOtherFields ==
    [][/\ \A op \in Settled("input") : OnlyChanges(op.noteId, {"text"})
       /\ \A op \in Settled("dragEnd") : OnlyChanges(op.noteId, {"position", "zIndex"})]_vars

\* The text of a note persisted by an earlier session was edited and its
\* record still has the position and colour it had.
C16_Witness ==
    /\ 3 \in DOMAIN store
    /\ store[3].text = "b"
    /\ store[3].position = [x |-> 5, y |-> 0]
    /\ store[3].color = "#ff0000"

\* C17: when createData succeeds, the z-index given to the new element equals
\* the zIndex of the record just stored for it.
C17_ShownStackOrderIsPersisted ==
    [][\A op \in Settled("create") :
          nextId' # nextId =>
             elems'[op.dom].zIndex = <<store'[NoteIdOf(elems'[op.dom])].zIndex>>]_vars

\* C18: while a drag that has had no drag-end yet is active (a mousedown came
\* after the last mouseup), the settling of an earlier drag-end's updateData
\* leaves the drag state on the dragged note.
C18_EarlierDragEndKeepsNewDrag ==
    [][\A op \in Settled("dragEnd") :
          (note.dom # Null /\ dragWrites = 0) => note'.dom = note.dom]_vars

\* C19: the stackOrder a createNote call persists for its note, and the
\* z-index a drag-start assigns, are strictly greater than every stackOrder
\* earlier sessions persisted.
C19_AboveEarlierSessions ==
    [][/\ \A op \in Settled("create") :
            nextId' # nextId => op.noteData.zIndex > priorMax
       /\ frontZ' # frontZ => frontZ' > priorMax]_vars

\* C20: the stacking counter is strictly greater than the z-index of every
\* note element that has one.
C20_CounterAboveShownNotes ==
    \A w \in DOMAIN elems :
        elems[w].zIndex # <<>> => zIndexValue > elems[w].zIndex[1]

\* A note created while the counter moved is shown at 3, above the value
\* persisted for it, a drag-start has assigned a z-index, and the counter is 4.
C20_Witness ==
    /\ zIndexValue = 4
    /\ frontZ # 0
    /\ \E w \in Attached : elems[w].zIndex = <<3>> /\ createdZ[w] \in {1, 2}

====
